---------------------------- MODULE Spec2Model ----------------------------
(***************************************************************************)
(* A model of src/extract_colocalized_patches.py: the colocalization       *)
(* scorer (calculate_colocalization_score), the density mapper and hotspot *)
(* selector (find_colocalization_hotspots), the patch extractor            *)
(* (extract_patch) and the part of main that chains them.                  *)
(*                                                                         *)
(* An n-dimensional array is a record [shape, dtype, data]: shape is the   *)
(* tuple of extents, data maps every index tuple (0-based) to the element  *)
(* there, and dtype is "bool" for a mask (elements TRUE/FALSE) or "uint"   *)
(* for an intensity volume (elements naturals).                            *)
(***************************************************************************)
EXTENDS Integers, Sequences, FiniteSets, TLC

VARIABLES
    pc,                   \* position of the running call
    volume,               \* extract_patch: the source array, (Z,Y,X) or (C,Z,Y,X)
    center,               \* extract_patch: the (z, y, x) center
    patch_size,           \* the requested patch size (pz, py, px)
    patch,                \* extract_patch: the returned array
    coloc_mask,           \* the boolean co-localization mask
    num_patches,          \* find_colocalization_hotspots: the requested count
    density_map,          \* find_colocalization_hotspots: the density buffer
    patch_centers,        \* find_colocalization_hotspots: the accumulated centers
    i,                    \* find_colocalization_hotspots: iterations executed
    selected,             \* history: per accepted center, its density when it was selected
    ch1,                  \* calculate_colocalization_score: first channel
    ch2,                  \* calculate_colocalization_score: second channel
    threshold_percentile, \* calculate_colocalization_score: the percentile
    manders_coeff,        \* the coefficient, an exact fraction [num, den]
    error,                \* the exception raised to the caller, or "none"
    outputs,              \* main: the files written so far (a set of names)
    patch_info            \* main: the records of the patches saved so far

vars == <<pc, volume, center, patch_size, patch, coloc_mask, num_patches,
          density_map, patch_centers, i, selected, ch1, ch2,
          threshold_percentile, manders_coeff, error, outputs, patch_info>>

-----------------------------------------------------------------------------
(* Bounds of the model.                                                    *)

MaxZ == 2
MaxY == 2
MaxX == 3
MaxPatch == 3
MaxChannels == 2
MaxTrue == 3
MaxCount == 2
MaxVoxels == 3
MaxVal == 2

-----------------------------------------------------------------------------
(* Arrays.                                                                 *)

Max(a, b) == IF a >= b THEN a ELSE b
Min(a, b) == IF a <= b THEN a ELSE b

Range(n) == 0 .. (n - 1)

\* Every index tuple of an array of the given 3- or 4-dimensional shape.
Indices(shape) ==
    IF Len(shape) = 3
    THEN Range(shape[1]) \X Range(shape[2]) \X Range(shape[3])
    ELSE Range(shape[1]) \X Range(shape[2]) \X Range(shape[3]) \X Range(shape[4])

\* numpy.zeros(shape): a zero-filled array.
Zeros(shape, dtype) ==
    [shape |-> shape, dtype |-> dtype,
     data  |-> [idx \in Indices(shape) |-> IF dtype = "bool" THEN FALSE ELSE 0]]

\* The length of the basic slice a[start:end] along an axis of extent n, for
\* start >= 0 and end >= 0: both are clipped to n, and an end below the start
\* selects nothing.
SliceLen(start, end, n) == Max(0, Min(end, n) - Min(start, n))

-----------------------------------------------------------------------------
(* extract_patch, src/extract_colocalized_patches.py lines 108-157.        *)

\* Lines 131-136: z_start, y_start, x_start.
PatchStart(shape, c, ps) == [d \in 1..3 |-> Max(0, c[d] - (ps[d] \div 2))]

\* Lines 131-136: z_end, y_end, x_end.
PatchEnd(shape, c, ps) == [d \in 1..3 |-> Min(shape[d], c[d] + (ps[d] \div 2))]

\* The mutant of PadPatch that centers the copied slice in the buffer.
PadPatchCentered(slice, lead, ps) ==
    LET k == Len(lead)
        actual_size == SubSeq(slice.shape, k + 1, k + 3)
        off == [d \in 1..3 |-> (ps[d] - actual_size[d]) \div 2]
        target == lead \o ps
        padded == Zeros(target, slice.dtype)
    IN  [shape |-> target, dtype |-> slice.dtype,
         data  |-> [idx \in Indices(target) |->
                      IF \A d \in 1..3 : /\ idx[k + d] >= off[d]
                                         /\ idx[k + d] < off[d] + actual_size[d]
                      THEN slice.data[[j \in 1..(k + 3) |->
                                         IF j <= k THEN idx[j] ELSE idx[j] - off[j - k]]]
                      ELSE padded.data[idx]]]

\* Lines 147-149 and 153-155: a zero-filled buffer of the target shape with the
\* slice copied to indices 0..actual_size-1 of every spatial axis.  lead is
\* the tuple of leading (channel) extents, empty for a single-channel volume.
PadPatch(slice, lead, ps) ==
    LET k == Len(lead)
        actual_size == SubSeq(slice.shape, k + 1, k + 3)
        target == lead \o ps
        padded == Zeros(target, slice.dtype)
    IN  [shape |-> target, dtype |-> slice.dtype,
         data  |-> [idx \in Indices(target) |->
                      IF \A d \in 1..3 : idx[k + d] < actual_size[d]
                      THEN slice.data[idx]
                      ELSE padded.data[idx]]]

\* Lines 138-141: volume[..., z_start:z_end, y_start:y_end, x_start:x_end].
SlicePatch(vol, lead, start, end) ==
    LET k == Len(lead)
        shape == SubSeq(vol.shape, k + 1, k + 3)
        actual_size == [d \in 1..3 |-> SliceLen(start[d], end[d], shape[d])]
        sshape == lead \o actual_size
    IN  [shape |-> sshape, dtype |-> vol.dtype,
         data  |-> [idx \in Indices(sshape) |->
                      vol.data[[j \in 1..(k + 3) |->
                                  IF j <= k THEN idx[j] ELSE start[j - k] + idx[j]]]]]

\* The mutant of extract_patch that returns the clamped slice unpadded.
extract_patch_nopad(vol, c, ps) ==
    LET is_multichannel == Len(vol.shape) = 4
        lead == IF is_multichannel THEN <<vol.shape[1]>> ELSE <<>>
        shape == IF is_multichannel THEN Tail(vol.shape) ELSE vol.shape
    IN  SlicePatch(vol, lead, PatchStart(shape, c, ps), PatchEnd(shape, c, ps))

\* extract_patch(volume, center, patch_size).
extract_patch(vol, c, ps) ==
    LET is_multichannel == Len(vol.shape) = 4
        lead == IF is_multichannel THEN <<vol.shape[1]>> ELSE <<>>
        shape == IF is_multichannel THEN Tail(vol.shape) ELSE vol.shape
        slice == SlicePatch(vol, lead, PatchStart(shape, c, ps), PatchEnd(shape, c, ps))
        actual_size == SubSeq(slice.shape, Len(lead) + 1, Len(lead) + 3)
    IN  IF actual_size # ps
        THEN PadPatch(slice, lead, ps)
        ELSE slice

-----------------------------------------------------------------------------
(* Values of the variables a specification does not use.                   *)

NoArray == [shape |-> <<>>, dtype |-> "none", data |-> <<>>]
NoFraction == [num |-> 0, den |-> 1]

IdlePatch ==
    /\ volume = NoArray
    /\ center = <<>>
    /\ patch = NoArray

IdleHotspots ==
    /\ num_patches = 0
    /\ density_map = NoArray
    /\ patch_centers = <<>>
    /\ i = 0
    /\ selected = <<>>

IdleScore ==
    /\ ch1 = NoArray
    /\ ch2 = NoArray
    /\ threshold_percentile = 0
    /\ manders_coeff = NoFraction

-----------------------------------------------------------------------------
(* The patch extractor called once on a bounded volume.                    *)

\* Spatial shapes (Z, Y, X) of the volumes.
Shapes == (1..MaxZ) \X (1..MaxY) \X (1..MaxX)

\* Patch sizes: three positive integers.
PatchSizes == (1..MaxPatch) \X (1..MaxPatch) \X (1..MaxPatch)

\* The shapes and patch sizes of the hotspot selector's runs.  In the largest
\* shape a half-extent of 2 along X leaves two valid centers.
HotspotShapes == {<<1, 1, 1>>, <<2, 2, 3>>, <<2, 3, 4>>}
HotspotPatchSizes == {<<1, 2, 2>>, <<2, 2, 2>>, <<2, 3, 4>>}

\* The position of an index in row-major order, from 1, so that no voxel of a
\* ramp volume equals the padding value.
Ramp(shape, idx) ==
    IF Len(shape) = 3
    THEN 1 + (idx[1] * shape[2] + idx[2]) * shape[3] + idx[3]
    ELSE 1 + ((idx[1] * shape[2] + idx[2]) * shape[3] + idx[3]) * shape[4] + idx[4]

\* The volumes handed to extract_patch: single-channel (Z,Y,X) and
\* multi-channel (C,Z,Y,X) intensity volumes whose voxels are pairwise
\* different, and all-true (Z,Y,X) masks.
RampVolume(shape) ==
    [shape |-> shape, dtype |-> "uint",
     data  |-> [idx \in Indices(shape) |-> Ramp(shape, idx)]]

TrueMask(shape) ==
    [shape |-> shape, dtype |-> "bool",
     data  |-> [idx \in Indices(shape) |-> TRUE]]

PatchVolumes ==
    {RampVolume(s) : s \in Shapes}
        \cup {RampVolume(<<c>> \o s) : c \in 1..MaxChannels, s \in Shapes}
        \cup {TrueMask(s) : s \in Shapes}

SpatialShape(vol) == IF Len(vol.shape) = 4 THEN Tail(vol.shape) ELSE vol.shape

InitPatch ==
    /\ pc = "extract_patch"
    /\ volume \in PatchVolumes
    /\ center \in Indices(SpatialShape(volume))
    /\ patch_size \in PatchSizes
    /\ patch = NoArray
    /\ coloc_mask = NoArray
    /\ error = "none"
    /\ outputs = {}
    /\ patch_info = <<>>
    /\ IdleHotspots
    /\ IdleScore

\* One call patch = extract_patch(volume, center, patch_size).
ExtractPatch ==
    /\ pc = "extract_patch"
    /\ patch' = extract_patch(volume, center, patch_size)
    /\ pc' = "returned"
    /\ UNCHANGED <<volume, center, patch_size, coloc_mask, num_patches,
                   density_map, patch_centers, i, selected, ch1, ch2,
                   threshold_percentile, manders_coeff, error, outputs, patch_info>>

NextPatch == ExtractPatch

SpecPatch == InitPatch /\ [][NextPatch]_vars

-----------------------------------------------------------------------------
(* find_colocalization_hotspots, src/extract_colocalized_patches.py lines  *)
(* 55-105.                                                                 *)

\* Line 68: kernel_size = np.array(patch_size) // 2.
KernelSize(ps) == [d \in 1..3 |-> ps[d] \div 2]

\* Lines 69-75: what building the kernel and convolving raises.  np.ones
\* rejects a negative extent, and scipy.ndimage.convolve rejects weights with
\* an extent of zero.
ConvolveError(ps) ==
    IF \E d \in 1..3 : KernelSize(ps)[d] < 0 THEN "ValueError"
    ELSE IF \E d \in 1..3 : KernelSize(ps)[d] = 0 THEN "RuntimeError"
    ELSE "none"

\* The input cells under a kernel of extent k (all ones) at output position
\* p of one axis, as scipy.ndimage.convolve places it: an odd kernel is
\* centered, an even one reaches one cell further to the high side.
KernelWindow(p, k) == (p - ((k - 1) \div 2)) .. (p + (k \div 2))

\* The mutant of Convolve that wraps around at the boundaries (mode='wrap').
ConvolveWrap(mask, k) ==
    LET window(idx) == KernelWindow(idx[1], k[1]) \X KernelWindow(idx[2], k[2])
                           \X KernelWindow(idx[3], k[3])
        wrapped(q) == <<q[1] % mask.shape[1], q[2] % mask.shape[2], q[3] % mask.shape[3]>>
    IN  [shape |-> mask.shape, dtype |-> "float",
         data  |-> [idx \in Indices(mask.shape) |->
                      Cardinality({q \in window(idx) : mask.data[wrapped(q)]})]]

\* Lines 71-75: ndimage.convolve(coloc_mask.astype(float), kernel,
\* mode='constant'): cells outside the array count as 0.
Convolve(mask, k) ==
    LET inside(q) == \A d \in 1..3 : 0 <= q[d] /\ q[d] < mask.shape[d]
        window(idx) == KernelWindow(idx[1], k[1]) \X KernelWindow(idx[2], k[2])
                           \X KernelWindow(idx[3], k[3])
    IN  [shape |-> mask.shape, dtype |-> "float",
         data  |-> [idx \in Indices(mask.shape) |->
                      Cardinality({q \in window(idx) : inside(q) /\ mask.data[q]})]]

\* The position of an index of an array in its flattened (row-major) order.
FlatIndex(shape, idx) == (idx[1] * shape[2] + idx[2]) * shape[3] + idx[3]

\* Line 83: np.unravel_index(flat, shape).
UnravelIndex(flat, shape) ==
    <<flat \div (shape[2] * shape[3]), (flat \div shape[3]) % shape[2], flat % shape[3]>>

\* The mutant of ArgMax that takes the last position of the largest element.
ArgMaxLast(a) ==
    LET largest == CHOOSE v \in {a.data[idx] : idx \in Indices(a.shape)} :
                       \A idx \in Indices(a.shape) : a.data[idx] <= v
        at == {FlatIndex(a.shape, idx) : idx \in {j \in Indices(a.shape) : a.data[j] = largest}}
    IN  CHOOSE f \in at : \A g \in at : f >= g

\* Line 83: density_map.argmax(), the first position of the largest element
\* in the flattened array.
ArgMax(a) ==
    LET largest == CHOOSE v \in {a.data[idx] : idx \in Indices(a.shape)} :
                       \A idx \in Indices(a.shape) : a.data[idx] <= v
        at == {FlatIndex(a.shape, idx) : idx \in {j \in Indices(a.shape) : a.data[j] = largest}}
    IN  CHOOSE f \in at : \A g \in at : f <= g

\* The mutant of Valid that checks the high edge only.
ValidHighOnly(max_idx, volume_shape, ps) ==
    \A dim \in 1..3 : ~ (max_idx[dim] > volume_shape[dim] - (ps[dim] \div 2))

\* The mutant of Valid that also rejects a coordinate equal to the high margin.
ValidStrictHigh(max_idx, volume_shape, ps) ==
    \A dim \in 1..3 :
        ~ \/ max_idx[dim] < ps[dim] \div 2
          \/ max_idx[dim] >= volume_shape[dim] - (ps[dim] \div 2)

\* Lines 85-91: the candidate is not too close to the edges.
Valid(max_idx, volume_shape, ps) ==
    \A dim \in 1..3 :
        ~ \/ max_idx[dim] < ps[dim] \div 2
          \/ max_idx[dim] > volume_shape[dim] - (ps[dim] \div 2)

\* The mutant of Suppress that also zeroes the cells at max_idx + pad.
SuppressClosed(dmap, max_idx, ps) ==
    LET pad == [d \in 1..3 |-> ps[d] \div 2]
    IN  [dmap EXCEPT !.data =
            [idx \in Indices(dmap.shape) |->
                IF \A d \in 1..3 : /\ max_idx[d] - pad[d] <= idx[d]
                                   /\ idx[d] <= max_idx[d] + pad[d]
                THEN 0
                ELSE dmap.data[idx]]]

\* Lines 97-103: zero the box of half-extent patch_size // 2 around max_idx.
Suppress(dmap, max_idx, ps) ==
    LET pad == [d \in 1..3 |-> ps[d] \div 2]
        lo == [d \in 1..3 |-> Max(0, max_idx[d] - pad[d])]
        hi == [d \in 1..3 |-> Min(dmap.shape[d], max_idx[d] + pad[d])]
    IN  [dmap EXCEPT !.data =
            [idx \in Indices(dmap.shape) |->
                IF \A d \in 1..3 : lo[d] <= idx[d] /\ idx[d] < hi[d]
                THEN 0
                ELSE dmap.data[idx]]]

\* The mutant of LoopContinues that leaves the loop one iteration early.
LoopStopsShort(k, n) == k + 1 < n

\* The mutant of LoopContinues that runs the loop once more.
LoopContinuesOnceMore(k, n) == k <= n

\* Line 81: for i in range(num_patches) has another iteration to run.
LoopContinues(k, n) == k < n

\* The mutant of Record that inserts at the front.
RecordFirst(seq, x) == <<x>> \o seq

\* Line 94: patch_centers.append(max_idx).
Record(seq, x) == Append(seq, x)

\* Lines 67-79: the kernel, the density map and the empty result, or the
\* exception the convolution raises.
HotspotsBegin ==
    /\ pc = "find_hotspots"
    /\ IF ConvolveError(patch_size) # "none"
       THEN /\ error' = ConvolveError(patch_size)
            /\ pc' = "raised"
            /\ UNCHANGED density_map
       ELSE /\ density_map' = Convolve(coloc_mask, KernelSize(patch_size))
            /\ pc' = "hotspot_loop"
            /\ UNCHANGED error
    /\ patch_centers' = <<>>
    /\ i' = 0
    /\ selected' = <<>>
    /\ UNCHANGED <<volume, center, patch_size, patch, coloc_mask, num_patches,
                   ch1, ch2, threshold_percentile, manders_coeff, outputs, patch_info>>

\* Lines 81-103: one iteration of the loop: find the maximum, validate it,
\* record it if valid, suppress its region.
HotspotsIterate ==
    /\ pc = "hotspot_loop"
    /\ LoopContinues(i, num_patches)
    /\ LET max_idx == UnravelIndex(ArgMax(density_map), density_map.shape)
           valid == Valid(max_idx, coloc_mask.shape, patch_size)
       IN  /\ patch_centers' = IF valid THEN Record(patch_centers, max_idx)
                                        ELSE patch_centers
           /\ selected' = IF valid THEN Record(selected, density_map.data[max_idx])
                                   ELSE selected
           /\ density_map' = Suppress(density_map, max_idx, patch_size)
    /\ i' = i + 1
    /\ UNCHANGED <<pc, volume, center, patch_size, patch, coloc_mask, num_patches,
                   ch1, ch2, threshold_percentile, manders_coeff, error, outputs, patch_info>>

\* Line 105: return patch_centers.
HotspotsReturn ==
    /\ pc = "hotspot_loop"
    /\ ~ LoopContinues(i, num_patches)
    /\ pc' = "hotspots_returned"
    /\ UNCHANGED <<volume, center, patch_size, patch, coloc_mask, num_patches,
                   density_map, patch_centers, i, selected, ch1, ch2,
                   threshold_percentile, manders_coeff, error, outputs, patch_info>>

-----------------------------------------------------------------------------
(* The hotspot selector called once on a bounded mask.                     *)

\* The masks handed to find_colocalization_hotspots: every (Z,Y,X) mask of a
\* bounded shape with at most MaxTrue true voxels.
\* The sets of at most k flat positions among lo..(n - 1).
RECURSIVE Combinations(_, _, _)
Combinations(lo, n, k) ==
    IF k = 0 THEN {{}}
    ELSE {{}} \cup UNION {{{f} \cup t : t \in Combinations(f + 1, n, k - 1)} :
                             f \in lo..(n - 1)}

MasksOf(shape) ==
    {[shape |-> shape, dtype |-> "bool",
      data  |-> [idx \in Indices(shape) |-> FlatIndex(shape, idx) \in on]] :
        on \in Combinations(0, shape[1] * shape[2] * shape[3], MaxTrue)}

InitHotspots ==
    /\ pc = "find_hotspots"
    /\ \E s \in HotspotShapes : coloc_mask \in MasksOf(s)
    /\ patch_size \in HotspotPatchSizes
    /\ num_patches \in 0..MaxCount
    /\ density_map = NoArray
    /\ patch_centers = <<>>
    /\ i = 0
    /\ selected = <<>>
    /\ error = "none"
    /\ outputs = {}
    /\ patch_info = <<>>
    /\ IdlePatch
    /\ IdleScore

NextHotspots == HotspotsBegin \/ HotspotsIterate \/ HotspotsReturn

SpecHotspots == InitHotspots /\ [][NextHotspots]_vars

-----------------------------------------------------------------------------
(* calculate_colocalization_score, src/extract_colocalized_patches.py      *)
(* lines 19-52.                                                            *)
(*                                                                         *)
(* A normalized channel (ch - ch.min()) / (ch.max() - ch.min() + 1e-10) is *)
(* kept as the array of its numerators ch - ch.min(); its elements share   *)
(* the positive denominator, so comparisons and the quotient of two sums   *)
(* of one normalized channel are those of the numerators.                  *)

Size(a) == Cardinality(DOMAIN a.data)

Values(a) == {a.data[idx] : idx \in DOMAIN a.data}

ArrayMin(a) == CHOOSE v \in Values(a) : \A w \in Values(a) : v <= w

\* Lines 32-33: the numerators of the normalized channel.
Normalize(ch) ==
    LET lowest == ArrayMin(ch)
    IN  [shape |-> ch.shape, dtype |-> "float",
         data  |-> [idx \in DOMAIN ch.data |-> ch.data[idx] - lowest]]

\* The element at position k (from 0) of the sorted flattened array.
Sorted(a, k) ==
    CHOOSE v \in Values(a) :
        /\ Cardinality({idx \in DOMAIN a.data : a.data[idx] < v}) <= k
        /\ Cardinality({idx \in DOMAIN a.data : a.data[idx] <= v}) > k

\* Lines 36-37: 100 * np.percentile(a, q), by linear interpolation between
\* the two sorted elements around position q / 100 * (n - 1).
Percentile100(a, q) ==
    LET n == Size(a)
        lo == (q * (n - 1)) \div 100
        rem == (q * (n - 1)) % 100
    IN  IF rem = 0
        THEN 100 * Sorted(a, lo)
        ELSE 100 * Sorted(a, lo) + rem * (Sorted(a, lo + 1) - Sorted(a, lo))

\* Lines 40-41: ch_norm > thresh.
ThresholdMask(norm, q) ==
    LET thresh100 == Percentile100(norm, q)
    IN  [shape |-> norm.shape, dtype |-> "bool",
         data  |-> [idx \in DOMAIN norm.data |-> 100 * norm.data[idx] > thresh100]]

\* Whether numpy broadcasts two 3-dimensional shapes together.
Broadcastable(s1, s2) == \A d \in 1..3 : s1[d] = s2[d] \/ s1[d] = 1 \/ s2[d] = 1

BroadcastShape(s1, s2) == [d \in 1..3 |-> IF s1[d] = 1 THEN s2[d] ELSE s1[d]]

\* Line 44: mask1 & mask2, with numpy's broadcasting of extents of 1.
MaskAnd(mask1, mask2) ==
    LET shape == BroadcastShape(mask1.shape, mask2.shape)
        at(m, idx) == m.data[[d \in 1..3 |-> IF m.shape[d] = 1 THEN 0 ELSE idx[d]]]
    IN  [shape |-> shape, dtype |-> "bool",
         data  |-> [idx \in Indices(shape) |-> at(mask1, idx) /\ at(mask2, idx)]]

\* mask.sum(): the number of true elements.
CountTrue(mask) == Cardinality({idx \in DOMAIN mask.data : mask.data[idx]})

\* norm[mask].sum().
RECURSIVE SumOver(_, _)
SumOver(norm, cells) ==
    IF cells = {} THEN 0
    ELSE LET c == CHOOSE x \in cells : TRUE
         IN  norm.data[c] + SumOver(norm, cells \ {c})

SumWhere(norm, mask) == SumOver(norm, {idx \in DOMAIN mask.data : mask.data[idx]})

\* The mutant of MandersCoeff that divides without testing mask1.sum().
MandersCoeffUnguarded(ch1_norm, mask1, coloc) ==
    [num |-> SumWhere(ch1_norm, coloc), den |-> SumWhere(ch1_norm, mask1)]

\* Lines 47-50: the quotient of the two sums as a fraction, 0.0 as 0/1.
MandersCoeff(ch1_norm, mask1, coloc) ==
    IF CountTrue(mask1) > 0
    THEN [num |-> SumWhere(ch1_norm, coloc), den |-> SumWhere(ch1_norm, mask1)]
    ELSE [num |-> 0, den |-> 1]

\* What calculate_colocalization_score(c1, c2) raises: min() of an empty
\* array (lines 32-33), operands that do not broadcast (line 44), a boolean
\* index of another shape than the indexed array (line 48).
ScoreError(c1, c2, q) ==
    IF Size(c1) = 0 \/ Size(c2) = 0 THEN "ValueError"
    ELSE IF ~ Broadcastable(c1.shape, c2.shape) THEN "ValueError"
    ELSE IF /\ CountTrue(ThresholdMask(Normalize(c1), q)) > 0
            /\ BroadcastShape(c1.shape, c2.shape) # c1.shape
         THEN "IndexError"
    ELSE "none"

\* calculate_colocalization_score(ch1, ch2, threshold_percentile), when it
\* raises nothing: (manders_coeff, coloc_mask).
calculate_colocalization_score(c1, c2, q) ==
    LET ch1_norm == Normalize(c1)
        ch2_norm == Normalize(c2)
        mask1 == ThresholdMask(ch1_norm, q)
        mask2 == ThresholdMask(ch2_norm, q)
        coloc == MaskAnd(mask1, mask2)
    IN  [manders_coeff |-> MandersCoeff(ch1_norm, mask1, coloc), coloc_mask |-> coloc]

\* One call manders, coloc_mask = calculate_colocalization_score(ch1, ch2, q).
Score ==
    /\ pc = "score"
    /\ LET raised == ScoreError(ch1, ch2, threshold_percentile)
           r == calculate_colocalization_score(ch1, ch2, threshold_percentile)
       IN  IF raised # "none"
           THEN /\ error' = raised
                /\ pc' = "raised"
                /\ UNCHANGED <<manders_coeff, coloc_mask>>
           ELSE /\ manders_coeff' = r.manders_coeff
                /\ coloc_mask' = r.coloc_mask
                /\ pc' = "score_returned"
                /\ UNCHANGED error
    /\ UNCHANGED <<volume, center, patch_size, patch, num_patches, density_map,
                   patch_centers, i, selected, ch1, ch2, threshold_percentile,
                   outputs, patch_info>>

-----------------------------------------------------------------------------
(* The scorer called once on two bounded channels of one shape.            *)

\* Every intensity volume of the shape with voxels in 0..top.  The second
\* channel enters the score only through its mask: two levels give every
\* mask a threshold can produce.
ChannelsOf(shape, top) ==
    {[shape |-> shape, dtype |-> "uint", data |-> d] :
        d \in [Indices(shape) -> 0..top]}

ScoreShapes == {<<1, 1, n>> : n \in 1..MaxVoxels}

Percentiles == {0, 25, 50, 75, 100}

InitScore ==
    /\ pc = "score"
    /\ \E s \in ScoreShapes : ch1 \in ChannelsOf(s, MaxVal) /\ ch2 \in ChannelsOf(s, 1)
    /\ threshold_percentile \in Percentiles
    /\ manders_coeff = NoFraction
    /\ coloc_mask = NoArray
    /\ patch_size = <<>>
    /\ error = "none"
    /\ outputs = {}
    /\ patch_info = <<>>
    /\ IdlePatch
    /\ IdleHotspots

NextScore == Score

SpecScore == InitScore /\ [][NextScore]_vars

-----------------------------------------------------------------------------
(* main, src/extract_colocalized_patches.py lines 238-323: the scorer, the *)
(* hotspot selector and the patch extractor chained on two loaded          *)
(* channels.  The patch size and the count (PATCH_SIZE and NUM_PATCHES,    *)
(* lines 169-170) are inputs of the run.                                   *)

\* Line 265: np.stack([iba1_data, abeta_data], axis=0), for equal shapes.
Stack(c1, c2) ==
    [shape |-> <<2>> \o c1.shape, dtype |-> c1.dtype,
     data  |-> [idx \in Indices(<<2>> \o c1.shape) |->
                  IF idx[1] = 0 THEN c1.data[Tail(idx)] ELSE c2.data[Tail(idx)]]]

\* Lines 240-248: score the two channels and save the co-localization map,
\* or propagate what the scorer raises.
MainScore ==
    /\ pc = "main_score"
    /\ LET raised == ScoreError(ch1, ch2, threshold_percentile)
           r == calculate_colocalization_score(ch1, ch2, threshold_percentile)
       IN  IF raised # "none"
           THEN /\ error' = raised
                /\ pc' = "raised"
                /\ UNCHANGED <<manders_coeff, coloc_mask, outputs>>
           ELSE /\ manders_coeff' = r.manders_coeff
                /\ coloc_mask' = r.coloc_mask
                /\ outputs' = outputs \cup {"colocalization_map.tif"}
                /\ pc' = "find_hotspots"
                /\ UNCHANGED error
    /\ UNCHANGED <<volume, center, patch_size, patch, num_patches, density_map,
                   patch_centers, i, selected, ch1, ch2, threshold_percentile,
                   patch_info>>

\* Lines 258-267: the warning about fewer centers than requested raises
\* nothing; np.stack raises for channels of different shapes.
MainStack ==
    /\ pc = "hotspots_returned"
    /\ IF ch1.shape # ch2.shape
       THEN /\ error' = "ValueError"
            /\ pc' = "raised"
            /\ UNCHANGED volume
       ELSE /\ volume' = Stack(ch1, ch2)
            /\ pc' = "extract_loop"
            /\ UNCHANGED error
    /\ UNCHANGED <<center, patch_size, patch, coloc_mask, num_patches,
                   density_map, patch_centers, i, selected, ch1, ch2,
                   threshold_percentile, manders_coeff, outputs, patch_info>>

\* Lines 269-308: one iteration of the loop over patch_centers: extract the
\* two-channel patch and the mask patch, save them, record the patch.
MainExtract ==
    /\ pc = "extract_loop"
    /\ Len(patch_info) < Len(patch_centers)
    /\ LET k == Len(patch_info) + 1
           coloc_patch == extract_patch(coloc_mask, patch_centers[k], patch_size)
       IN  /\ center' = patch_centers[k]
           /\ patch' = extract_patch(volume, patch_centers[k], patch_size)
           /\ patch_info' = Append(patch_info,
                                   [patch_id |-> k,
                                    center |-> patch_centers[k],
                                    coloc_voxels |-> CountTrue(coloc_patch),
                                    voxels |-> Size(coloc_patch)])
    /\ outputs' = outputs \cup {"patches"}
    /\ UNCHANGED <<pc, volume, patch_size, coloc_mask, num_patches, density_map,
                   patch_centers, i, selected, ch1, ch2, threshold_percentile,
                   manders_coeff, error>>

\* Lines 310-323: open the metadata file and dump the metadata.  A recorded
\* center is a tuple of numpy integers (line 83), which json.dump cannot
\* serialize: with a patch recorded the dump raises TypeError, leaving the
\* file it has opened; with none it completes and main returns.
MainFinish ==
    /\ pc = "extract_loop"
    /\ Len(patch_info) = Len(patch_centers)
    /\ outputs' = outputs \cup {"patch_metadata.json"}
    /\ IF patch_info # <<>>
       THEN error' = "TypeError" /\ pc' = "raised"
       ELSE pc' = "main_returned" /\ UNCHANGED error
    /\ UNCHANGED <<volume, center, patch_size, patch, coloc_mask, num_patches,
                   density_map, patch_centers, i, selected, ch1, ch2,
                   threshold_percentile, manders_coeff, patch_info>>

-----------------------------------------------------------------------------
(* main run on bounded inputs, valid and invalid.                          *)

\* The channels of a run: every all-zero volume and every volume with one
\* bright voxel, of an empty shape and of shapes that are equal, that differ
\* and broadcast, and that differ and do not broadcast.
MainShapes == {<<0, 2, 2>>, <<1, 2, 3>>, <<2, 2, 3>>, <<2, 2, 2>>}

MainVolumes(shape) ==
    {[shape |-> shape, dtype |-> "uint",
      data  |-> [idx \in Indices(shape) |-> IF idx \in bright THEN 1 ELSE 0]] :
        bright \in {{}} \cup {{idx} : idx \in Indices(shape)}}

\* Patch sizes with half-extents of 1, with a half-extent of 0, and with a
\* component that is not positive.
MainPatchSizes == {<<2, 2, 2>>, <<3, 2, 3>>, <<1, 2, 2>>, <<0, 2, 2>>, <<2, 2, -1>>}

InitMain ==
    /\ pc = "main_score"
    /\ \E s1 \in MainShapes, s2 \in MainShapes :
          ch1 \in MainVolumes(s1) /\ ch2 \in MainVolumes(s2)
    /\ threshold_percentile = 50
    /\ patch_size \in MainPatchSizes
    /\ num_patches \in -1..MaxCount
    /\ manders_coeff = NoFraction
    /\ coloc_mask = NoArray
    /\ density_map = NoArray
    /\ patch_centers = <<>>
    /\ i = 0
    /\ selected = <<>>
    /\ error = "none"
    /\ outputs = {}
    /\ patch_info = <<>>
    /\ IdlePatch

NextMain ==
    \/ MainScore
    \/ HotspotsBegin
    \/ HotspotsIterate
    \/ HotspotsReturn
    \/ MainStack
    \/ MainExtract
    \/ MainFinish

SpecMain == InitMain /\ [][NextMain]_vars

-----------------------------------------------------------------------------
(* Properties.                                                             *)

\* The leading (channel) extents of the volume handed to extract_patch.
Lead == IF Len(volume.shape) = 4 THEN <<volume.shape[1]>> ELSE <<>>

\* C1: for every single- or multi-channel volume, every patch_size of three
\* positive integers and every in-volume center, boundary voxels included,
\* extract_patch returns an array whose spatial shape is exactly patch_size,
\* with the leading axis C for a multi-channel volume.
C1_ExactShape ==
    pc = "returned" =>
        /\ patch.shape = Lead \o patch_size
        /\ DOMAIN patch.data = Indices(Lead \o patch_size)

\* A multi-channel call whose center is on the first voxel of Z and on the
\* last voxel of X has returned.
C1_Witness ==
    /\ pc = "returned"
    /\ Len(volume.shape) = 4
    /\ volume.shape[4] > 1
    /\ center[1] = 0
    /\ center[3] = volume.shape[4] - 1
    /\ patch.shape = Lead \o patch_size

\* C2: any two distinct centers returned by one call of the hotspot selector
\* differ by at least 2 * (patch_size // 2) on at least one axis, so that
\* their boxes [c - h, c + h) share no voxel.
C2_NoOverlap ==
    pc = "hotspots_returned" =>
        \A j, k \in 1..Len(patch_centers) :
            j < k =>
                \E d \in 1..3 :
                    \/ patch_centers[j][d] - patch_centers[k][d] >= 2 * (patch_size[d] \div 2)
                    \/ patch_centers[k][d] - patch_centers[j][d] >= 2 * (patch_size[d] \div 2)

\* C3: the hotspot selector returns at most num_patches centers, and the
\* number of centers accumulated so far never exceeds the number of loop
\* iterations executed.
C3_AtMostCount ==
    /\ Len(patch_centers) <= i
    /\ pc = "hotspots_returned" => Len(patch_centers) <= num_patches

\* A call has returned as many centers as were requested, two.
C3_Witness ==
    /\ pc = "hotspots_returned"
    /\ num_patches = 2
    /\ Len(patch_centers) = 2

\* C4: along the sequence of returned centers, the density each center had
\* when it was selected is non-increasing.
C4_NonIncreasing ==
    /\ Len(selected) = Len(patch_centers)
    /\ \A j \in 1..(Len(selected) - 1) : selected[j + 1] <= selected[j]

\* A call has returned two centers, the second selected at a smaller density
\* than the first.
C4_Witness ==
    /\ pc = "hotspots_returned"
    /\ Len(patch_centers) = 2
    /\ selected[2] < selected[1]

\* The two masks of the scorer's channels.
Mask1 == ThresholdMask(Normalize(ch1), threshold_percentile)
Mask2 == ThresholdMask(Normalize(ch2), threshold_percentile)
Mask1InMask2 == \A idx \in DOMAIN Mask1.data : Mask1.data[idx] => Mask2.data[idx]

\* C5, as claimed: the coefficient lies in [0,1], equals 0 when mask1 is
\* entirely false, and equals 1 when every voxel of mask1 is also in mask2.
C5_Original ==
    pc = "score_returned" =>
        /\ manders_coeff.den > 0
        /\ 0 <= manders_coeff.num /\ manders_coeff.num <= manders_coeff.den
        /\ CountTrue(Mask1) = 0 => manders_coeff.num = 0
        /\ Mask1InMask2 => manders_coeff.num = manders_coeff.den

\* C5, amended: the coefficient lies in [0,1], equals 0 when mask1 is
\* entirely false, and equals 1 when mask1 is not empty and every voxel of
\* mask1 is also in mask2.
C5_Amended ==
    pc = "score_returned" =>
        /\ manders_coeff.den > 0
        /\ 0 <= manders_coeff.num /\ manders_coeff.num <= manders_coeff.den
        /\ CountTrue(Mask1) = 0 => manders_coeff.num = 0
        /\ (CountTrue(Mask1) > 0 /\ Mask1InMask2) =>
               manders_coeff.num = manders_coeff.den

\* The scorer has returned 1 for a mask1 of two voxels, both in mask2.
C5_Witness ==
    /\ pc = "score_returned"
    /\ CountTrue(Mask1) = 2
    /\ Mask1InMask2
    /\ manders_coeff.num = manders_coeff.den

\* The inputs the design names invalid: channels of different shapes, an
\* empty volume, a patch size component or a count that is not positive.
InvalidInput ==
    \/ ch1.shape # ch2.shape
    \/ Size(ch1) = 0
    \/ Size(ch2) = 0
    \/ \E d \in 1..3 : patch_size[d] <= 0
    \/ num_patches <= 0

\* C6: on an invalid input the run raises an error before any computation
\* proceeds and produces no partial output: past its first step it has
\* raised, with no coefficient, mask, centers, patches or files.
C6_FailFast ==
    (InvalidInput /\ pc # "main_score") =>
        /\ pc = "raised"
        /\ outputs = {}
        /\ coloc_mask = NoArray
        /\ patch_centers = <<>>
        /\ patch_info = <<>>

\* The run of C7: two all-zero channels of one non-empty shape, a patch size
\* of half-extent at least 1, a count of at least 1, percentile 50.
AllZeroRun ==
    /\ ch1.shape = ch2.shape
    /\ Size(ch1) > 0
    /\ \A idx \in DOMAIN ch1.data : ch1.data[idx] = 0 /\ ch2.data[idx] = 0
    /\ \A d \in 1..3 : patch_size[d] \div 2 >= 1
    /\ num_patches >= 1
    /\ threshold_percentile = 50

\* C7: on two all-zero channels the run raises nothing, the mask is empty,
\* the coefficient is 0.0, the hotspot selector returns no center, and the
\* run goes on to its end with an empty patch list.
C7_AllZeroTolerated ==
    AllZeroRun =>
        /\ error = "none"
        /\ pc # "raised"
        /\ patch_centers = <<>>
        /\ patch_info = <<>>
        /\ pc # "main_score" =>
               /\ manders_coeff = [num |-> 0, den |-> 1]
               /\ CountTrue(coloc_mask) = 0
        /\ pc # "main_returned" => ENABLED NextMain

\* An all-zero run asked for two patches has finished, every candidate
\* rejected.
C7_Witness ==
    /\ AllZeroRun
    /\ pc = "main_returned"
    /\ num_patches = 2
    /\ i = 2
    /\ patch_centers = <<>>

\* C8: whenever a call of the hotspot selector returns fewer than
\* num_patches centers, no cell of the density map is both non-zero and
\* valid as a center.
C8_ExhaustsValidSites ==
    (pc = "hotspots_returned" /\ Len(patch_centers) < num_patches) =>
        ~ \E idx \in DOMAIN density_map.data :
              /\ density_map.data[idx] # 0
              /\ \A d \in 1..3 :
                    /\ idx[d] >= patch_size[d] \div 2
                    /\ idx[d] <= coloc_mask.shape[d] - (patch_size[d] \div 2)

\* C10: with h = patch_size // 2, start = max(0, c - h) and
\* end = min(extent, c + h) per axis, the returned patch holds
\* volume[start + i] at every index i below end - start on every axis and 0
\* at every other index.
C10_LowAlignedZeroPadded ==
    pc = "returned" =>
        LET k == Len(Lead)
            extent == SpatialShape(volume)
            h == [d \in 1..3 |-> patch_size[d] \div 2]
            start == [d \in 1..3 |-> Max(0, center[d] - h[d])]
            end == [d \in 1..3 |-> Min(extent[d], center[d] + h[d])]
        IN  \A idx \in Indices(Lead \o patch_size) :
                /\ idx \in DOMAIN patch.data
                /\ IF \A d \in 1..3 : idx[k + d] < end[d] - start[d]
                   THEN patch.data[idx] =
                            volume.data[[j \in 1..(k + 3) |->
                                           IF j <= k THEN idx[j]
                                           ELSE start[j - k] + idx[j]]]
                   ELSE patch.data[idx] = (IF volume.dtype = "bool" THEN FALSE ELSE 0)

\* A call whose slice was clamped at the low boundary of X, copied at least
\* one voxel and was padded along X has returned.
C10_Witness ==
    /\ pc = "returned"
    /\ center[3] < patch_size[3] \div 2
    /\ \A d \in 1..3 : Min(SpatialShape(volume)[d], center[d] + (patch_size[d] \div 2)) > center[d]
    /\ Min(SpatialShape(volume)[3], center[3] + (patch_size[3] \div 2)) < patch_size[3]

\* The center of the call is unclamped: on every axis c - patch_size//2 >= 0
\* and c + patch_size//2 <= extent.
Unclamped ==
    \A d \in 1..3 :
        /\ center[d] - (patch_size[d] \div 2) >= 0
        /\ center[d] + (patch_size[d] \div 2) <= SpatialShape(volume)[d]

\* C11: extract_patch pads only when the slice was clamped: for every
\* patch_size and every unclamped center the copied slice already has shape
\* patch_size and the returned patch is that slice, with no padded position.
C11_PadsOnlyWhenClamped ==
    (pc = "returned" /\ Unclamped) =>
        LET extent == SpatialShape(volume)
            start == PatchStart(extent, center, patch_size)
            end == PatchEnd(extent, center, patch_size)
        IN  /\ \A d \in 1..3 : end[d] - start[d] = patch_size[d]
            /\ patch = SlicePatch(volume, Lead, start, end)

\* The coordinate c keeps the margin patch_size//2 from both ends of every
\* axis of the mask.
WithinMargin(c) ==
    \A d \in 1..3 :
        /\ patch_size[d] \div 2 <= c[d]
        /\ c[d] <= coloc_mask.shape[d] - (patch_size[d] \div 2)

\* C12: in every iteration of the selector's loop the candidate is appended
\* to the result if and only if it keeps the margin patch_size//2 on each of
\* the 3 axes; every center of the result keeps the margin and lies inside
\* the volume.
C12_AppendedIffWithinMargin ==
    [][(pc = "hotspot_loop" /\ i' = i + 1) =>
          LET cand == UnravelIndex(ArgMax(density_map), density_map.shape)
          IN  /\ WithinMargin(cand) => patch_centers' = Append(patch_centers, cand)
              /\ ~ WithinMargin(cand) => patch_centers' = patch_centers
              /\ \A k \in 1..Len(patch_centers') :
                     /\ WithinMargin(patch_centers'[k])
                     /\ patch_centers'[k] \in Indices(coloc_mask.shape)]_vars

\* A call of two iterations has returned with one candidate appended and the
\* other one turned down.
C12_Witness ==
    /\ pc = "hotspots_returned"
    /\ i = 2
    /\ Len(patch_centers) = 1

\* C13: in every iteration of the selector's loop, the candidate accepted or
\* not, the density map afterwards is zero at every cell of the box
\* [c - h, c + h) around the candidate c, h = patch_size//2, clamped to the
\* array, the candidate's own cell included, and is unchanged at every other
\* cell; a candidate at voxel (0,0,0) is not appended.
C13_SuppressedBox ==
    [][(pc = "hotspot_loop" /\ i' = i + 1) =>
          LET cand == UnravelIndex(ArgMax(density_map), density_map.shape)
              h == [d \in 1..3 |-> patch_size[d] \div 2]
              InBox(idx) == \A d \in 1..3 : /\ cand[d] - h[d] <= idx[d]
                                            /\ idx[d] < cand[d] + h[d]
          IN  /\ density_map'.shape = density_map.shape
              /\ \A idx \in Indices(density_map.shape) :
                     density_map'.data[idx] =
                         IF InBox(idx) THEN 0 ELSE density_map.data[idx]
              /\ density_map'.data[cand] = 0
              /\ cand = <<0, 0, 0>> => patch_centers' = patch_centers]_vars

\* The first iteration took the candidate at voxel (0,0,0), which had a
\* non-zero density, turned it down and zeroed its cell, and left a non-zero
\* cell elsewhere.
C13_Witness ==
    /\ pc = "hotspot_loop"
    /\ i = 1
    /\ patch_centers = <<>>
    /\ LET first == Convolve(coloc_mask, KernelSize(patch_size))
       IN  /\ ArgMax(first) = 0
           /\ first.data[<<0, 0, 0>>] > 0
    /\ density_map.data[<<0, 0, 0>>] = 0
    /\ \E idx \in Indices(density_map.shape) : density_map.data[idx] > 0

\* Every cell of the density map is zero.
AllZero(dmap) == \A idx \in Indices(dmap.shape) : dmap.data[idx] = 0

\* C14, as claimed: once the density map is identically zero no further
\* iteration of the selector's loop is performed, and the loop ends with the
\* map identically zero or after exactly num_patches iterations.
C14_Original ==
    [][/\ (pc = "hotspot_loop" /\ AllZero(density_map)) => i' = i
       /\ (pc = "hotspot_loop" /\ pc' = "hotspots_returned") =>
              (AllZero(density_map) \/ i = num_patches)]_vars

\* C14, amended: the loop ends after exactly num_patches iterations, also
\* when the density map is identically zero; an iteration on an identically
\* zero map appends no center and leaves the map as it is.
C14_Amended ==
    [][/\ (pc = "hotspot_loop" /\ pc' = "hotspots_returned") => i = num_patches
       /\ (pc = "hotspot_loop" /\ i' = i + 1 /\ AllZero(density_map)) =>
              /\ patch_centers' = patch_centers
              /\ density_map' = density_map]_vars

\* A call on an all-false mask has returned after two iterations, both on an
\* identically zero density map.
C14_Witness ==
    /\ pc = "hotspots_returned"
    /\ CountTrue(coloc_mask) = 0
    /\ num_patches = 2
    /\ i = 2
    /\ AllZero(density_map)

\* Scan order: a comes before b, or is b, going through z, then y, then x.
ScanLeq(a, b) ==
    \/ a[1] < b[1]
    \/ a[1] = b[1] /\ a[2] < b[2]
    \/ a[1] = b[1] /\ a[2] = b[2] /\ a[3] <= b[3]

\* The cells holding the global maximum of the density map.
MaxCells(dmap) ==
    LET values == {dmap.data[idx] : idx \in Indices(dmap.shape)}
        top == CHOOSE v \in values : \A w \in values : w <= v
    IN  {c \in Indices(dmap.shape) : dmap.data[c] = top}

\* C15: in every iteration of the selector's loop the candidate is the cell
\* that comes first in (z, y, x) scan order among the cells holding the
\* global maximum of the density map: a center appended in the iteration is
\* that cell, and when none is appended that cell fails the margin; it is
\* the cell suppressed.
C15_FirstMaximum ==
    [][(pc = "hotspot_loop" /\ i' = i + 1) =>
          LET first == CHOOSE c \in MaxCells(density_map) :
                           \A o \in MaxCells(density_map) : ScanLeq(c, o)
          IN  /\ IF Len(patch_centers') > Len(patch_centers)
                 THEN patch_centers'[Len(patch_centers')] = first
                 ELSE ~ WithinMargin(first)
              /\ density_map'.data[first] = 0]_vars

\* The first iteration found the maximum, not zero, in two cells and
\* appended one of them.
C15_Witness ==
    /\ pc = "hotspot_loop"
    /\ i = 1
    /\ Len(patch_centers) = 1
    /\ LET before == Convolve(coloc_mask, KernelSize(patch_size))
       IN  /\ before.data[patch_centers[1]] > 0
           /\ \E idx \in MaxCells(before) : idx # patch_centers[1]

\* The offsets from its position that an all-ones kernel of extent k covers
\* along one axis.
KernelOffsets(k) == (0 - ((k - 1) \div 2)) .. (k \div 2)

\* C16: the density map as built, before the first iteration, gives at each
\* voxel p the number of true mask voxels of the volume that lie in the
\* all-ones box of extent patch_size//2 per axis positioned at p, positions
\* outside the volume adding nothing; every value lies between 0 and the
\* number of cells of the kernel, and an all-false mask gives zero everywhere.
C16_BoxCount ==
    (pc = "hotspot_loop" /\ i = 0) =>
        LET k == [d \in 1..3 |-> patch_size[d] \div 2]
            InKernel(p, q) == \A d \in 1..3 : (q[d] - p[d]) \in KernelOffsets(k[d])
            on == {q \in Indices(coloc_mask.shape) : coloc_mask.data[q]}
        IN  /\ density_map.shape = coloc_mask.shape
            /\ \A p \in Indices(coloc_mask.shape) :
                   /\ density_map.data[p] = Cardinality({q \in on : InKernel(p, q)})
                   /\ 0 <= density_map.data[p]
                   /\ density_map.data[p] <= k[1] * k[2] * k[3]
            /\ CountTrue(coloc_mask) = 0 => AllZero(density_map)

\* A density map has been built with a kernel of extent 2 along X: a voxel
\* at the last X position, where the kernel reaches past the volume, counts
\* one true voxel, and another voxel counts two.
C16_Witness ==
    /\ pc = "hotspot_loop"
    /\ i = 0
    /\ patch_size[3] \div 2 = 2
    /\ \E p \in Indices(density_map.shape) :
           p[3] = density_map.shape[3] - 1 /\ density_map.data[p] = 1
    /\ \E p \in Indices(density_map.shape) : density_map.data[p] = 2

=============================================================================
